---- MODULE Spec2Model ----
(***************************************************************************)
(* Order placement of the e-store backend (routes/orders.js, POST /).      *)
(*                                                                         *)
(* The relational store is modelled with the semantics the handler relies  *)
(* on: a transaction's writes are private until commit, a plain SELECT is  *)
(* a non-locking read of committed rows, an UPDATE takes the row's         *)
(* exclusive lock until the transaction ends and computes from the latest  *)
(* committed row, rollback discards the private writes.                    *)
(*                                                                         *)
(* Money is counted in units of 1/10000 of a currency unit, so that the    *)
(* 18% VAT of a DECIMAL(12,2) price and the 0.01 tolerance are integers.   *)
(***************************************************************************)
EXTENDS Integers, Sequences, FiniteSets, TLC

VARIABLES
  products,    \* table products: id -> [price, stock] (committed rows)
  addresses,   \* table addresses (committed rows)
  orders,      \* table orders (committed rows)
  orderItems,  \* table order_items (committed rows)
  pc,          \* per handler: the await it is suspended at
  req,         \* per handler: req.body
  productMap,  \* per handler: rows returned by the product SELECT
  idx,         \* per handler: position of the write loop in items
  call,        \* per handler: number of its call; its uuids derive from it
  tx,          \* per handler: uncommitted writes of its connection
  seen,        \* per handler: stock each UPDATE found just before decrementing
  resp,        \* per handler: the response sent for its last call
  nextCall,    \* number of the next call (stands for fresh uuids)
  adminResp,   \* the response to the last administrative request
  order,       \* per handler: the order read back; the body of its 201 response
  txLog,       \* per handler: the transaction calls made on its connection
  released,    \* per handler: the number of connection.release() calls
  categories,  \* table categories: id -> [name, slug]
  job,         \* per administrator: the catalog request being served
  nextCategory, \* number of the next category (stands for fresh uuids)
  cartItems,   \* table cart_items
  cart,        \* per cart session: the cart request being served
  nextCartItem \* number of the next cart item (stands for fresh uuids)

vars == <<products, addresses, orders, orderItems, pc, req, productMap, idx,
          call, tx, seen, resp, nextCall, adminResp, order, txLog, released,
          categories, job, nextCategory, cartItems, cart, nextCartItem>>

\* The connection of a call, as its transaction calls and its releases.
conn == <<txLog, released>>

\* State that order placement never touches.
\* The catalog's categories and the requests administering them.
catalog == <<categories, job, nextCategory>>

\* The carts and the requests on them.
carts == <<cartItems, cart, nextCartItem>>

outside == <<adminResp, catalog, carts>>

store == <<products, addresses, orders, orderItems>>

----------------------------------------------------------------------------
(* Bounds and input sets *)

MaxCalls == 2
MaxQty == 2

Handlers == {"u1", "u2"}

ProductIds == {"p1", "p2", "p3"}

\* Catalog at start: p1 costs 0.05 (stock 2), p2 costs 1.00 (stock 1), both in
\* category 1; p3 is not in the catalog.
InitProducts ==
  ("p1" :> [price |-> 500, stock |-> 2, category_id |-> 1])
  @@ ("p2" :> [price |-> 10000, stock |-> 1, category_id |-> 1])

PaymentMethods == {"mobile_money", "card", "cash"}

Tolerance == 100
VatPercent == 18
Cent == 100

Line(p, q) == [productId |-> p, quantity |-> q]

ItemLists ==
  {<<Line(p, q)>> : p \in ProductIds, q \in 1..MaxQty}
  \cup {<<Line(p, 1), Line(r, 1)>> : p \in ProductIds, r \in ProductIds}

----------------------------------------------------------------------------
(* Pure helpers of the handler *)

Abs(x) == IF x < 0 THEN -x ELSE x

Min(S) == CHOOSE x \in S : \A y \in S : x <= y

\* DECIMAL(12,2) column: a value with more than two decimals is rounded.
Round2(x) == ((x + (Cent \div 2)) \div Cent) * Cent

productIds(items) == {items[i].productId : i \in 1..Len(items)}

RECURSIVE calculatedTotal(_, _)
calculatedTotal(items, pm) ==
  IF items = <<>> THEN 0
  ELSE pm[Head(items).productId].price * Head(items).quantity
       + calculatedTotal(Tail(items), pm)

expectedVat(sub) == (sub * VatPercent) \div 100

expectedTotal(sub) == sub + expectedVat(sub)

\* First line whose quantity exceeds the stock that was read; 0 if none.
ShortLine(items, pm) ==
  LET S == {i \in 1..Len(items) : pm[items[i].productId].stock < items[i].quantity}
  IN IF S = {} THEN 0 ELSE Min(S)

TotalInvalid(sub, total, vatAmount) ==
  \/ Abs(expectedTotal(sub) - total) > Tolerance
  \/ Abs(expectedVat(sub) - vatAmount) > Tolerance

Verdict(r, pm) ==
  IF Cardinality(DOMAIN pm) # Len(r.items) THEN "ProductNotFound"
  ELSE IF ShortLine(r.items, pm) # 0 THEN "InsufficientStock"
  ELSE IF TotalInvalid(calculatedTotal(r.items, pm), r.total, r.vatAmount)
       THEN "TotalMismatch"
  ELSE "ok"

\* ValidRequest without the paymentMethod validator.
ValidRequestAnyMethod(r) ==
  /\ Len(r.items) >= 1
  /\ \A i \in 1..Len(r.items) : r.items[i].quantity >= 1
  /\ r.total >= 0
  /\ r.vatAmount >= 0
  /\ r.shippingAddress \in {"absent", "object", "noStreet"}

ValidRequest(r) ==
  /\ Len(r.items) >= 1
  /\ \A i \in 1..Len(r.items) : r.items[i].quantity >= 1
  /\ r.total >= 0
  /\ r.vatAmount >= 0
  /\ r.paymentMethod \in PaymentMethods
  /\ r.shippingAddress \in {"absent", "object", "noStreet"}

\* if (shippingAddress): an address object came with the request.
HasAddress(r) == r.shippingAddress \in {"object", "noStreet"}

\* shippingAddress.street: "noStreet" is an address object whose street is
\* the empty string.
Street(r) == IF r.shippingAddress = "object" THEN "street" ELSE ""

\* Line 203: notes || null, after the validator's trim.
StoredNotes(r) == IF r.notes \in {"absent", ""} THEN "null" ELSE r.notes

----------------------------------------------------------------------------
(* Requests *)

Request(items, total, vatAmount, method, addr) ==
  [items |-> items, total |-> total, vatAmount |-> vatAmount,
   paymentMethod |-> method, shippingAddress |-> addr, notes |-> "absent"]

\* The request r with notes n.
Noted(r, n) == [r EXCEPT !.notes = n]

\* What the initial catalog charges for the lines it knows.
CatalogSubtotal(items) ==
  calculatedTotal(SelectSeq(items, LAMBDA l : l.productId \in DOMAIN InitProducts),
                  InitProducts)

\* A client claiming total and VAT off the catalog figures by dT and dV.
Claiming(items, dT, dV, method, addr) ==
  Request(items, expectedTotal(CatalogSubtotal(items)) + dT,
          expectedVat(CatalogSubtotal(items)) + dV, method, addr)

\* Requests the validators refuse: no items, a quantity below 1, a negative
\* total, a negative vatAmount, a shippingAddress that is not an object.
InvalidRequests ==
  {Request(<<>>, 0, 0, "cash", "absent"),
   Claiming(<<Line("p1", 0)>>, 0, 0, "cash", "absent"),
   Request(<<Line("p1", 1)>>, -590, 90, "cash", "absent"),
   Request(<<Line("p1", 1)>>, 590, -90, "cash", "absent"),
   Claiming(<<Line("p1", 1)>>, 0, 0, "cash", "text")}

\* Exact claims for every item list, with and without an address; a total
\* and a vatAmount tampered beyond the tolerance; claims off by 0.009 (inside
\* the tolerance, and off the exact 0.01 boundary that binary floating point
\* decides per value); a tampered total on a repeated product; a payment
\* method outside the enum.
Requests ==
  {Claiming(items, 0, 0, "cash", addr) :
     items \in ItemLists, addr \in {"absent", "object"}}
  \cup {Claiming(<<Line("p1", 1)>>, 110, 0, "card", "object"),
        Claiming(<<Line("p1", 1)>>, 0, 110, "card", "absent"),
        Claiming(<<Line("p1", 1)>>, 90, -90, "card", "absent"),
        Claiming(<<Line("p1", 1), Line("p1", 1)>>, 110, 0, "card", "absent"),
        Claiming(<<Line("p1", 1)>>, 0, 0, "bitcoin", "absent"),
        Claiming(<<Line("p1", 1)>>, 0, 0, "cash", "noStreet"),
        Noted(Claiming(<<Line("p2", 1)>>, 0, 0, "mobile_money", "object"), "gift")}
  \cup InvalidRequests

NoRequest == Request(<<>>, 0, 0, "none", "absent")

----------------------------------------------------------------------------
(* Handler state *)

EmptyMap == [p \in {} |-> 0]

EmptyTx == [addresses |-> {}, orders |-> {}, orderItems |-> {}, stock |-> EmptyMap]

NoResp == [status |-> 0, kind |-> "none", call |-> 0, at |-> "none"]

\* A response, with the call it answers and the await the handler was at.
Response(status, kind, c, at) ==
  [status |-> status, kind |-> kind, call |-> c, at |-> at]

\* No order has been read back.
NoOrder == [id |-> 0]

NoAdminResp == [op |-> "none", id |-> 0, status |-> 0]

\* The answer to an administrative request on row id.
AdminResponse(op, id, status) == [op |-> op, id |-> id, status |-> status]

Admins == {"a1", "a2"}

\* One category at start, holding both products.
InitCategories == 1 :> [name |-> "n1", slug |-> "a"]

\* An administrator serving no request; status is that of the last response.
NoJob == [op |-> "none", pc |-> "idle", id |-> 0, patch |-> EmptyMap, status |-> 0]

\* Concurrent cart requests; each is made by one of the users.
Sessions == {"k1", "k2"}

\* A session serving no request; status is that of its last response.
NoCart == [op |-> "none", pc |-> "idle", user |-> "none", id |-> 0,
           productId |-> "none", quantity |-> 0, stock |-> 0,
           newQuantity |-> 0, status |-> 0]

Init ==
  /\ products = InitProducts
  /\ addresses = {}
  /\ orders = {}
  /\ orderItems = {}
  /\ pc = [w \in Handlers |-> "idle"]
  /\ req = [w \in Handlers |-> NoRequest]
  /\ productMap = [w \in Handlers |-> EmptyMap]
  /\ idx = [w \in Handlers |-> 0]
  /\ call = [w \in Handlers |-> 0]
  /\ tx = [w \in Handlers |-> EmptyTx]
  /\ seen = [w \in Handlers |-> EmptyMap]
  /\ resp = [w \in Handlers |-> NoResp]
  /\ nextCall = 1
  /\ adminResp = NoAdminResp
  /\ order = [w \in Handlers |-> NoOrder]
  /\ txLog = [w \in Handlers |-> <<>>]
  /\ released = [w \in Handlers |-> 0]
  /\ categories = InitCategories
  /\ job = [a \in Admins |-> NoJob]
  /\ nextCategory = 2
  /\ cartItems = {}
  /\ cart = [k \in Sessions |-> NoCart]
  /\ nextCartItem = 1

\* return res.status(..) / finally: the handler's locals are gone.
Respond(w, status, kind) ==
  /\ resp' = [resp EXCEPT ![w] = Response(status, kind, call[w], pc[w])]
  /\ pc' = [pc EXCEPT ![w] = "done"]
  /\ req' = [req EXCEPT ![w] = NoRequest]
  /\ productMap' = [productMap EXCEPT ![w] = EmptyMap]
  /\ idx' = [idx EXCEPT ![w] = 0]
  /\ call' = [call EXCEPT ![w] = 0]
  /\ seen' = [seen EXCEPT ![w] = EmptyMap]
  /\ status # 201 => order' = [order EXCEPT ![w] = NoOrder]
  /\ released' = [released EXCEPT ![w] = @ + 1]

\* connection.rollback(): the connection's uncommitted writes are dropped.
Rollback(w) ==
  /\ tx' = [tx EXCEPT ![w] = EmptyTx]
  /\ txLog' = [txLog EXCEPT ![w] = Append(@, "rollback")]

----------------------------------------------------------------------------
(* POST /orders, one action per await of the handler *)

\* Lines 133-142: getConnection, beginTransaction, validationResult.
Start(w, r) ==
  /\ pc[w] \in {"idle", "done"}
  /\ nextCall <= MaxCalls
  /\ nextCall' = nextCall + 1
  /\ UNCHANGED <<store, productMap, idx, seen, tx, outside>>
  /\ IF ValidRequest(r)
     THEN /\ pc' = [pc EXCEPT ![w] = "select"]
          /\ req' = [req EXCEPT ![w] = r]
          /\ call' = [call EXCEPT ![w] = nextCall]
          /\ resp' = [resp EXCEPT ![w] = NoResp]
          /\ order' = [order EXCEPT ![w] = NoOrder]
          /\ txLog' = [txLog EXCEPT ![w] = <<"beginTransaction">>]
          /\ released' = [released EXCEPT ![w] = 0]
     ELSE /\ pc' = [pc EXCEPT ![w] = "done"]
          /\ resp' = [resp EXCEPT ![w] = Response(400, "ValidationFailed", nextCall, "begin")]
          /\ order' = [order EXCEPT ![w] = NoOrder]
          /\ txLog' = [txLog EXCEPT ![w] = <<"beginTransaction", "rollback">>]
          /\ released' = [released EXCEPT ![w] = 1]
          /\ UNCHANGED <<req, call>>

\* Lines 133-136, 267-270: beginTransaction rejects; catch answers 500.
BeginFails(w) ==
  /\ pc[w] \in {"idle", "done"}
  /\ nextCall <= MaxCalls
  /\ nextCall' = nextCall + 1
  /\ pc' = [pc EXCEPT ![w] = "done"]
  /\ resp' = [resp EXCEPT ![w] = Response(500, "PersistenceFailure", nextCall, "begin")]
  /\ order' = [order EXCEPT ![w] = NoOrder]
  /\ txLog' = [txLog EXCEPT ![w] = <<"rollback">>]
  /\ released' = [released EXCEPT ![w] = 1]
  /\ UNCHANGED <<store, req, productMap, idx, call, seen, tx, outside>>

\* Rows of SELECT id, name, price, stock FROM products WHERE id IN (...):
\* a non-locking read of the committed rows.
SelectedRows(ids) == [p \in (ids \cap DOMAIN products) |-> products[p]]

\* Stock after decrementing the lines before line k in the committed rows.
RECURSIVE DecrementedBefore(_, _, _)
DecrementedBefore(items, k, rows) ==
  IF k <= 1 THEN rows
  ELSE LET l == items[k - 1]
       IN DecrementedBefore(items, k - 1,
            [rows EXCEPT ![l.productId].stock = @ - l.quantity])

\* SelectProducts with each line's stock decremented through the pool as soon
\* as the line passes its check.
SelectProductsEager(w) ==
  /\ pc[w] = "select"
  /\ LET pm == SelectedRows(productIds(req[w].items))
         v == Verdict(req[w], pm)
     IN IF v # "ok"
        THEN /\ Rollback(w)
             /\ Respond(w, 400, v)
             /\ products' = IF v = "InsufficientStock"
                            THEN DecrementedBefore(req[w].items,
                                   ShortLine(req[w].items, pm), products)
                            ELSE products
             /\ UNCHANGED <<addresses, orders, orderItems, nextCall, outside>>
        ELSE /\ productMap' = [productMap EXCEPT ![w] = pm]
             /\ pc' = [pc EXCEPT ![w] =
                        IF HasAddress(req[w]) THEN "address" ELSE "order"]
             /\ UNCHANGED <<store, req, idx, call, tx, seen, resp, nextCall, outside, order, conn>>

\* Lines 147-180: product lookup, count check, stock check, total check.
SelectProducts(w) ==
  /\ pc[w] = "select"
  /\ LET pm == SelectedRows(productIds(req[w].items))
         v == Verdict(req[w], pm)
     IN IF v # "ok"
        THEN /\ Rollback(w)
             /\ Respond(w, 400, v)
             /\ UNCHANGED <<store, nextCall, outside>>
        ELSE /\ productMap' = [productMap EXCEPT ![w] = pm]
             /\ pc' = [pc EXCEPT ![w] =
                        IF HasAddress(req[w]) THEN "address" ELSE "order"]
             /\ UNCHANGED <<store, req, idx, call, tx, seen, resp, nextCall, outside, order, conn>>

\* Lines 187-195: the address row of this call.
AddressRow(w) == [id |-> call[w], user_id |-> w, street |-> Street(req[w])]

\* InsertAddress issued on the pool (autocommit) instead of the connection.
InsertAddressPool(w) ==
  /\ pc[w] = "address"
  /\ addresses' = addresses \cup {AddressRow(w)}
  /\ pc' = [pc EXCEPT ![w] = "order"]
  /\ UNCHANGED <<products, orders, orderItems, req, productMap, idx, call, tx,
                 seen, resp, nextCall, outside, order, conn>>

\* Lines 183-197: INSERT INTO addresses through the connection.
InsertAddress(w) ==
  /\ pc[w] = "address"
  /\ tx' = [tx EXCEPT ![w].addresses = @ \cup {AddressRow(w)}]
  /\ pc' = [pc EXCEPT ![w] = "order"]
  /\ UNCHANGED <<store, req, productMap, idx, call, seen, resp, nextCall, outside, order, conn>>

\* OrderRow that leaves shipping_address_id out of the insert.
OrderRowNoAddress(w) ==
  [id |-> call[w], user_id |-> w,
   total |-> Round2(req[w].total), vat_amount |-> Round2(req[w].vatAmount),
   status |-> "pending", payment_method |-> req[w].paymentMethod,
   shipping_address_id |-> 0, notes |-> StoredNotes(req[w])]

\* Lines 200-204: INSERT INTO orders with the request's total and vatAmount.
OrderRow(w) ==
  [id |-> call[w], user_id |-> w,
   total |-> Round2(req[w].total), vat_amount |-> Round2(req[w].vatAmount),
   status |-> "pending", payment_method |-> req[w].paymentMethod,
   shipping_address_id |-> IF HasAddress(req[w]) THEN call[w] ELSE 0,
   notes |-> StoredNotes(req[w])]

InsertOrder(w) ==
  /\ pc[w] = "order"
  /\ tx' = [tx EXCEPT ![w].orders = @ \cup {OrderRow(w)}]
  /\ idx' = [idx EXCEPT ![w] = 1]
  /\ pc' = [pc EXCEPT ![w] = "item"]
  /\ UNCHANGED <<store, req, productMap, call, seen, resp, nextCall, outside, order, conn>>

\* InsertOrderItem that takes items[0] on every round of the loop.
InsertOrderItemFirst(w) ==
  /\ pc[w] = "item"
  /\ LET item == req[w].items[1]
     IN tx' = [tx EXCEPT ![w].orderItems = @ \cup
                 {[id |-> <<call[w], idx[w]>>, order_id |-> call[w],
                   product_id |-> item.productId, quantity |-> item.quantity,
                   price |-> productMap[w][item.productId].price]}]
  /\ pc' = [pc EXCEPT ![w] = "stock"]
  /\ UNCHANGED <<store, req, productMap, idx, call, seen, resp, nextCall, outside, order, conn>>

\* Lines 211-214: INSERT INTO order_items with the price that was read.
InsertOrderItem(w) ==
  /\ pc[w] = "item"
  /\ LET item == req[w].items[idx[w]]
     IN tx' = [tx EXCEPT ![w].orderItems = @ \cup
                 {[id |-> <<call[w], idx[w]>>, order_id |-> call[w],
                   product_id |-> item.productId, quantity |-> item.quantity,
                   price |-> productMap[w][item.productId].price]}]
  /\ pc' = [pc EXCEPT ![w] = "stock"]
  /\ UNCHANGED <<store, req, productMap, idx, call, seen, resp, nextCall, outside, order, conn>>

\* The row lock of product p is held by the transaction that updated it.
LockedByOther(w, p) == \E v \in Handlers \ {w} : p \in DOMAIN tx[v].stock

\* The stock the UPDATE of handler w finds in row p.
CurrentStock(w, p) ==
  IF p \in DOMAIN tx[w].stock THEN tx[w].stock[p] ELSE products[p].stock

\* NewStock written from the row read by the SELECT (read-then-write).
NewStockFromRead(w, p, q) == productMap[w][p].stock - q

\* Lines 217-220: UPDATE products SET stock = stock - ? WHERE id = ?
NewStock(w, p, q) == CurrentStock(w, p) - q

UpdateStock(w) ==
  /\ pc[w] = "stock"
  /\ LET item == req[w].items[idx[w]]
         p == item.productId
     IN /\ p \in DOMAIN products
        /\ ~LockedByOther(w, p)
        /\ tx' = [tx EXCEPT ![w].stock = (p :> NewStock(w, p, item.quantity)) @@ @]
        /\ seen' = [seen EXCEPT ![w] = (p :> CurrentStock(w, p)) @@ @]
  /\ IF idx[w] < Len(req[w].items)
     THEN /\ idx' = [idx EXCEPT ![w] = @ + 1]
          /\ pc' = [pc EXCEPT ![w] = "item"]
     ELSE /\ pc' = [pc EXCEPT ![w] = "commit"]
          /\ UNCHANGED idx
  /\ UNCHANGED <<store, req, productMap, call, resp, nextCall, outside, order, conn>>

\* Line 223: connection.commit() publishes the connection's writes.
Commit(w) ==
  /\ pc[w] = "commit"
  /\ products' = [p \in DOMAIN products |->
                    IF p \in DOMAIN tx[w].stock
                    THEN [products[p] EXCEPT !.stock = tx[w].stock[p]]
                    ELSE products[p]]
  /\ addresses' = addresses \cup tx[w].addresses
  /\ orders' = orders \cup tx[w].orders
  /\ orderItems' = orderItems \cup tx[w].orderItems
  /\ tx' = [tx EXCEPT ![w] = EmptyTx]
  /\ pc' = [pc EXCEPT ![w] = "readOrder"]
  /\ txLog' = [txLog EXCEPT ![w] = Append(@, "commit")]
  /\ UNCHANGED <<req, productMap, idx, call, seen, resp, nextCall, outside, order, released>>

\* Lines 226-231: the committed order row LEFT JOINed with its address; the
\* columns of a missing address are null.
JoinedOrder(id) ==
  LET o == CHOOSE x \in orders : x.id = id
      as == {a \in addresses : a.id = o.shipping_address_id}
  IN [id |-> o.id, total |-> o.total, vat_amount |-> o.vat_amount,
      status |-> o.status, payment_method |-> o.payment_method,
      notes |-> o.notes,
      street |-> IF as = {} THEN "null" ELSE (CHOOSE a \in as : TRUE).street]

\* Lines 233-238: the committed lines of the order JOINed with their product.
JoinedItems(id) ==
  {l \in orderItems : l.order_id = id /\ l.product_id \in DOMAIN products}

\* Lines 240-266: the order of the 201 response; a falsy street (null or the
\* empty string) gives shippingAddress null. An address is stood for by its
\* street.
OrderJson(row, lines) ==
  [id |-> row.id, total |-> row.total, vatAmount |-> row.vat_amount,
   status |-> row.status, paymentMethod |-> row.payment_method,
   notes |-> row.notes,
   shippingAddress |-> IF row.street \in {"null", ""} THEN "null" ELSE row.street,
   items |-> {[id |-> l.id, productId |-> l.product_id,
               quantity |-> l.quantity, price |-> l.price] : l \in lines}]

\* Lines 226-231: pool.execute, the order joined with its address.
ReadOrder(w) ==
  /\ pc[w] = "readOrder"
  /\ \E o \in orders : o.id = call[w]
  /\ order' = [order EXCEPT ![w] = JoinedOrder(call[w])]
  /\ pc' = [pc EXCEPT ![w] = "readItems"]
  /\ UNCHANGED <<store, req, productMap, idx, call, tx, seen, resp, nextCall, outside, conn>>

\* Lines 233-266: pool.execute, the order's items; then the 201 response.
ReadItems(w) ==
  /\ pc[w] = "readItems"
  /\ order' = [order EXCEPT ![w] = OrderJson(@, JoinedItems(call[w]))]
  /\ Respond(w, 201, "Created")
  /\ UNCHANGED <<store, tx, nextCall, outside, txLog>>

\* Throw whose catch block does not roll back.
ThrowNoRollback(w) ==
  /\ pc[w] \in {"select", "address", "order", "item", "stock", "commit",
                "readOrder", "readItems"}
  /\ Respond(w, 500, "PersistenceFailure")
  /\ UNCHANGED <<store, tx, txLog, nextCall, outside>>

\* Lines 267-270: any awaited store call rejects; catch rolls back, 500.
Throw(w) ==
  /\ pc[w] \in {"select", "address", "order", "item", "stock", "commit",
                "readOrder", "readItems"}
  /\ Rollback(w)
  /\ Respond(w, 500, "PersistenceFailure")
  /\ UNCHANGED <<store, nextCall, outside>>

\* The steps of a placement after its start.
PlacementStep(w) ==
  \/ SelectProducts(w)
  \/ InsertAddress(w)
  \/ InsertOrder(w)
  \/ InsertOrderItem(w)
  \/ UpdateStock(w)
  \/ Commit(w)
  \/ ReadOrder(w)
  \/ ReadItems(w)
  \/ Throw(w)

Next ==
  \E w \in Handlers :
    \/ \E r \in Requests : Start(w, r)
    \/ BeginFails(w)
    \/ PlacementStep(w)

Spec == Init /\ [][Next]_vars

----------------------------------------------------------------------------
(* Lock waits of concurrent placements *)

\* The product whose row the pending stock UPDATE of handler w needs.
Needs(w) == req[w].items[idx[w]].productId

\* Handler w waits for a row lock held by v.
WaitsFor(w, v) ==
  /\ w # v
  /\ pc[w] = "stock"
  /\ Needs(w) \in DOMAIN tx[v].stock

\* A store that neither detects the cycle nor times the lock wait out.
DeadlockUndetected(w) ==
  /\ FALSE
  /\ UNCHANGED vars

\* Lines 217-220, 267-270: two transactions wait for each other's row lock;
\* the store ends the cycle by failing the UPDATE of one of them, whose catch
\* rolls back and answers 500.
DeadlockVictim(w) ==
  /\ \E v \in Handlers : WaitsFor(w, v) /\ WaitsFor(v, w)
  /\ Rollback(w)
  /\ Respond(w, 500, "PersistenceFailure")
  /\ UNCHANGED <<store, nextCall, outside>>

\* Steps of a placement that the store and the event loop eventually take;
\* a failure of the store (Throw) may happen but need not.
Progress(w) ==
  \/ SelectProducts(w)
  \/ InsertAddress(w)
  \/ InsertOrder(w)
  \/ InsertOrderItem(w)
  \/ UpdateStock(w)
  \/ Commit(w)
  \/ ReadOrder(w)
  \/ ReadItems(w)
  \/ DeadlockVictim(w)

\* Placements of the same two products in opposite order.
LiveRequests ==
  {Claiming(<<Line("p1", 1), Line("p2", 1)>>, 0, 0, "cash", "absent"),
   Claiming(<<Line("p2", 1), Line("p1", 1)>>, 0, 0, "card", "object")}

NextLive ==
  \E w \in Handlers :
    \/ \E r \in LiveRequests : Start(w, r)
    \/ BeginFails(w)
    \/ PlacementStep(w)
    \/ DeadlockVictim(w)

SpecLive ==
  Init /\ [][NextLive]_vars /\ \A w \in Handlers : WF_vars(Progress(w))

----------------------------------------------------------------------------
(* Administration: PATCH /orders/:id/status and PUT /products/:id *)

OrderStatuses == {"pending", "processing", "shipped", "delivered", "cancelled"}

\* An uncommitted INSERT holds the lock of its row: a statement on that row
\* waits for the inserting transaction.
OrderRowLocked(id) == \E w \in Handlers : \E o \in tx[w].orders : o.id = id

ProductRowLocked(p) == \E w \in Handlers : p \in DOMAIN tx[w].stock

\* UpdateStatus without the isIn validator.
UpdateStatusUnchecked(id, status) ==
  /\ ~OrderRowLocked(id)
  /\ IF \A o \in orders : o.id # id
     THEN /\ adminResp' = AdminResponse("status", id, 404)
          /\ UNCHANGED orders
     ELSE /\ orders' = {IF o.id = id THEN [o EXCEPT !.status = status] ELSE o :
                          o \in orders}
          /\ adminResp' = AdminResponse("status", id, 200)
  /\ UNCHANGED <<products, addresses, orderItems, pc, req, productMap, idx, call,
                 tx, seen, resp, nextCall, order, conn, catalog, carts>>

\* UpdateStatus that puts the ordered quantities back in stock when an order
\* is cancelled.
UpdateStatusRestock(id, status) ==
  /\ ~OrderRowLocked(id)
  /\ IF status \notin OrderStatuses
     THEN /\ adminResp' = AdminResponse("status", id, 400)
          /\ UNCHANGED <<orders, products>>
     ELSE IF \A o \in orders : o.id # id
     THEN /\ adminResp' = AdminResponse("status", id, 404)
          /\ UNCHANGED <<orders, products>>
     ELSE /\ orders' = {IF o.id = id THEN [o EXCEPT !.status = status] ELSE o :
                          o \in orders}
          /\ products' =
               [p \in DOMAIN products |->
                  LET ls == {l \in orderItems : l.order_id = id /\ l.product_id = p}
                  IN IF status = "cancelled" /\ ls # {}
                     THEN [products[p] EXCEPT
                             !.stock = @ + (CHOOSE l \in ls : TRUE).quantity]
                     ELSE products[p]]
          /\ adminResp' = AdminResponse("status", id, 200)
  /\ UNCHANGED <<addresses, orderItems, pc, req, productMap, idx, call,
                 tx, seen, resp, nextCall, order, conn, catalog, carts>>

\* orders.js lines 277-303: PATCH /:id/status.
UpdateStatus(id, status) ==
  /\ ~OrderRowLocked(id)
  /\ IF status \notin OrderStatuses
     THEN /\ adminResp' = AdminResponse("status", id, 400)
          /\ UNCHANGED orders
     ELSE IF \A o \in orders : o.id # id
     THEN /\ adminResp' = AdminResponse("status", id, 404)
          /\ UNCHANGED orders
     ELSE /\ orders' = {IF o.id = id THEN [o EXCEPT !.status = status] ELSE o :
                          o \in orders}
          /\ adminResp' = AdminResponse("status", id, 200)
  /\ UNCHANGED <<products, addresses, orderItems, pc, req, productMap, idx, call,
                 tx, seen, resp, nextCall, order, conn, catalog, carts>>

\* products.js lines 223-227: the validators of the fields present.
ValidPatch(patch) ==
  /\ "price" \in DOMAIN patch => patch["price"] >= 0
  /\ "stock" \in DOMAIN patch => patch["stock"] >= 0

\* products.js lines 244-283: the row with the fields present set.
Patched(row, patch) ==
  [price |-> IF "price" \in DOMAIN patch THEN Round2(patch["price"]) ELSE row.price,
   stock |-> IF "stock" \in DOMAIN patch THEN patch["stock"] ELSE row.stock,
   category_id |-> IF "categoryId" \in DOMAIN patch THEN patch["categoryId"]
                   ELSE row.category_id]

\* FOREIGN KEY (category_id) REFERENCES categories(id): a statement setting a
\* category that does not exist fails.
ParentExists(patch) ==
  "categoryId" \in DOMAIN patch => patch["categoryId"] \in DOMAIN categories

\* UpdateProduct that also rewrites the price of the product's order lines.
UpdateProductReprice(id, patch) ==
  /\ IF ~ValidPatch(patch)
     THEN /\ adminResp' = AdminResponse("product", id, 400)
          /\ UNCHANGED <<products, orderItems>>
     ELSE IF id \notin DOMAIN products
     THEN /\ adminResp' = AdminResponse("product", id, 404)
          /\ UNCHANGED <<products, orderItems>>
     ELSE IF DOMAIN patch = {}
     THEN /\ adminResp' = AdminResponse("product", id, 400)
          /\ UNCHANGED <<products, orderItems>>
     ELSE IF ~ParentExists(patch)
     THEN /\ adminResp' = AdminResponse("product", id, 500)
          /\ UNCHANGED <<products, orderItems>>
     ELSE /\ ~ProductRowLocked(id)
          /\ products' = [products EXCEPT ![id] = Patched(@, patch)]
          /\ orderItems' = {IF l.product_id = id
                             THEN [l EXCEPT !.price = Patched(products[id], patch).price]
                             ELSE l : l \in orderItems}
          /\ adminResp' = AdminResponse("product", id, 200)
  /\ UNCHANGED <<addresses, orders, pc, req, productMap, idx, call, tx, seen,
                 resp, nextCall, order, conn, catalog, carts>>

\* products.js lines 222-312: PUT /:id.
UpdateProduct(id, patch) ==
  /\ IF ~ValidPatch(patch)
     THEN /\ adminResp' = AdminResponse("product", id, 400)
          /\ UNCHANGED products
     ELSE IF id \notin DOMAIN products
     THEN /\ adminResp' = AdminResponse("product", id, 404)
          /\ UNCHANGED products
     ELSE IF DOMAIN patch = {}
     THEN /\ adminResp' = AdminResponse("product", id, 400)
          /\ UNCHANGED products
     ELSE IF ~ParentExists(patch)
     THEN /\ adminResp' = AdminResponse("product", id, 500)
          /\ UNCHANGED products
     ELSE /\ ~ProductRowLocked(id)
          /\ products' = [products EXCEPT ![id] = Patched(@, patch)]
          /\ adminResp' = AdminResponse("product", id, 200)
  /\ UNCHANGED <<addresses, orders, orderItems, pc, req, productMap, idx, call,
                 tx, seen, resp, nextCall, order, conn, catalog, carts>>

\* Administrative inputs: a status outside the enum, an order id never issued;
\* a new price, no field, a negative price, an unknown product.
StatusInputs == {"shipped", "refunded"}

OrderIdInputs == 0..MaxCalls

Patches ==
  {EmptyMap, [f \in {"price"} |-> 700], [f \in {"price"} |-> -100]}

ProductIdInputs == {"p1", "p3"}

\* The placement made while the catalog is administered: one p1 at the
\* starting price (a mismatch once p1 is repriced).
AdminRequests == {Claiming(<<Line("p1", 1)>>, 0, 0, "card", "object")}

NextAdmin ==
  \/ \E w \in Handlers :
       \/ \E r \in AdminRequests : Start(w, r)
       \/ BeginFails(w)
       \/ PlacementStep(w)
  \/ \E id \in OrderIdInputs, status \in StatusInputs : UpdateStatus(id, status)
  \/ \E id \in ProductIdInputs, patch \in Patches : UpdateProduct(id, patch)

SpecAdmin == Init /\ [][NextAdmin]_vars

\* Orders moved between delivered, pending and cancelled while one user
\* places orders.
StatusMoves == {"delivered", "pending", "cancelled"}

NextStatus ==
  \/ \E r \in AdminRequests : Start("u1", r)
  \/ BeginFails("u1")
  \/ PlacementStep("u1")
  \/ \E id \in OrderIdInputs, status \in StatusMoves : UpdateStatus(id, status)

SpecStatus == Init /\ [][NextStatus]_vars

----------------------------------------------------------------------------
(* Catalog administration: categories (routes/categories.js) and the        *)
(* products placed in them (routes/products.js). Every statement runs on    *)
(* the pool, so each is its own transaction; a handler is one action per    *)
(* await, its first SELECT joined with the arrival of the request.          *)

MaxCategories == 2

\* Everything of order placement but the products table.
placement == <<addresses, orders, orderItems, pc, req, productMap, idx, call,
               tx, seen, resp, nextCall, order, conn>>

\* categories.js lines 59-60, 104-105: name and slug, when present, are not
\* empty and the slug matches /^[a-z0-9-]+$/.
ValidCategory(body) ==
  /\ "name" \in DOMAIN body => body["name"] # ""
  /\ "slug" \in DOMAIN body => body["slug"] \in {"a", "b"}

\* Rows of SELECT id FROM categories WHERE slug = ? AND id != ?.
SlugHolders(slug, id) ==
  {c \in DOMAIN categories : categories[c].slug = slug /\ c # id}

\* Rows of SELECT COUNT(*) FROM products WHERE category_id = ?.
ProductsIn(id) == {p \in DOMAIN products : products[p].category_id = id}

\* res.status(..).json(..): the request is answered.
Answer(a, status) ==
  job' = [job EXCEPT ![a] = [NoJob EXCEPT !.op = job[a].op, !.pc = "done",
                                          !.status = status]]

\* The request op arrives at an idle administrator and fails validation.
Refuse(a, op) ==
  job' = [job EXCEPT ![a] = [NoJob EXCEPT !.op = op, !.pc = "done", !.status = 400]]

Await(a, op, at, id, patch) ==
  job' = [job EXCEPT ![a] = [op |-> op, pc |-> at, id |-> id, patch |-> patch,
                             status |-> 0]]

Idle(a) == job[a].pc \in {"idle", "done"}

\* categories.js lines 58-78: validation, then the slug check.
CreateCategory(a, body) ==
  /\ Idle(a)
  /\ nextCategory <= MaxCategories
  /\ IF ~ValidCategory(body)
     THEN Refuse(a, "createCategory")
     ELSE IF SlugHolders(body["slug"], 0) # {}
     THEN Refuse(a, "createCategory")
     ELSE Await(a, "createCategory", "insert", 0, body)
  /\ UNCHANGED <<products, placement, adminResp, carts, categories, nextCategory>>

\* categories.js lines 80-99: INSERT INTO categories; the UNIQUE slug makes
\* the statement fail when the slug has been taken meanwhile (catch: 500).
InsertCategory(a) ==
  /\ job[a].op = "createCategory" /\ job[a].pc = "insert"
  /\ IF SlugHolders(job[a].patch["slug"], 0) # {}
     THEN /\ Answer(a, 500)
          /\ UNCHANGED <<categories, nextCategory>>
     ELSE /\ nextCategory <= MaxCategories
          /\ categories' = (nextCategory :> [name |-> job[a].patch["name"],
                                              slug |-> job[a].patch["slug"]])
                            @@ categories
          /\ nextCategory' = nextCategory + 1
          /\ Answer(a, 201)
  /\ UNCHANGED <<products, placement, adminResp, carts>>

\* PatchedCategory that writes every column, absent fields as null.
PatchedCategoryAll(row, patch) ==
  [name |-> IF "name" \in DOMAIN patch THEN patch["name"] ELSE "null",
   slug |-> IF "slug" \in DOMAIN patch THEN patch["slug"] ELSE "null"]

\* categories.js lines 134-160: the row with the fields present set.
PatchedCategory(row, patch) ==
  [name |-> IF "name" \in DOMAIN patch THEN patch["name"] ELSE row.name,
   slug |-> IF "slug" \in DOMAIN patch THEN patch["slug"] ELSE row.slug]

\* categories.js lines 103-148: validation, the existence check, and on the
\* path without a slug the test for an empty update.
UpdateCategory(a, id, patch) ==
  /\ Idle(a)
  /\ IF ~ValidCategory(patch)
     THEN Refuse(a, "updateCategory")
     ELSE IF id \notin DOMAIN categories
     THEN job' = [job EXCEPT ![a] = [NoJob EXCEPT !.op = "updateCategory",
                                         !.pc = "done", !.status = 404]]
     ELSE IF "slug" \in DOMAIN patch
     THEN Await(a, "updateCategory", "conflict", id, patch)
     ELSE IF DOMAIN patch = {}
     THEN Refuse(a, "updateCategory")
     ELSE Await(a, "updateCategory", "update", id, patch)
  /\ UNCHANGED <<products, placement, adminResp, carts, categories, nextCategory>>

\* categories.js lines 123-131: the slug conflict check.
CheckSlugConflict(a) ==
  /\ job[a].op = "updateCategory" /\ job[a].pc = "conflict"
  /\ IF SlugHolders(job[a].patch["slug"], job[a].id) # {}
     THEN Answer(a, 400)
     ELSE job' = [job EXCEPT ![a].pc = "update"]
  /\ UNCHANGED <<products, placement, adminResp, carts, categories, nextCategory>>

\* categories.js lines 152-171: UPDATE categories, the read-back and the 200
\* response; a row deleted meanwhile is matched by neither statement, a slug
\* taken meanwhile makes the UPDATE fail (catch: 500).
UpdateCategoryRow(a) ==
  /\ job[a].op = "updateCategory" /\ job[a].pc = "update"
  /\ LET id == job[a].id
         patch == job[a].patch
     IN IF id \notin DOMAIN categories
        THEN Answer(a, 200) /\ UNCHANGED categories
        ELSE IF "slug" \in DOMAIN patch /\ SlugHolders(patch["slug"], id) # {}
        THEN Answer(a, 500) /\ UNCHANGED categories
        ELSE /\ categories' = [categories EXCEPT ![id] = PatchedCategory(@, patch)]
             /\ Answer(a, 200)
  /\ UNCHANGED <<products, placement, adminResp, carts, nextCategory>>

\* categories.js lines 179-193: the count of the category's products.
DeleteCategory(a, id) ==
  /\ Idle(a)
  /\ IF ProductsIn(id) # {}
     THEN Refuse(a, "deleteCategory")
     ELSE Await(a, "deleteCategory", "delete", id, EmptyMap)
  /\ UNCHANGED <<products, placement, adminResp, carts, categories, nextCategory>>

\* categories.js lines 195-201: DELETE FROM categories; the products' foreign
\* key makes the statement fail while a product references the row.
DeleteCategoryRow(a) ==
  /\ job[a].op = "deleteCategory" /\ job[a].pc = "delete"
  /\ LET id == job[a].id
     IN IF ProductsIn(id) # {}
        THEN Answer(a, 500) /\ UNCHANGED categories
        ELSE IF id \notin DOMAIN categories
        THEN Answer(a, 404) /\ UNCHANGED categories
        ELSE /\ categories' = [c \in DOMAIN categories \ {id} |-> categories[c]]
             /\ Answer(a, 200)
  /\ UNCHANGED <<products, placement, adminResp, carts, nextCategory>>

\* products.js lines 171-215: validation, INSERT INTO products (failing on a
\* category that does not exist), the read-back and the 201 response. The new
\* product is p3.
CreateProduct(a, body) ==
  /\ Idle(a)
  /\ "p3" \notin DOMAIN products
  /\ IF ~ValidPatch(body)
     THEN Refuse(a, "createProduct") /\ UNCHANGED products
     ELSE IF body["categoryId"] \notin DOMAIN categories
     THEN /\ job' = [job EXCEPT ![a] = [NoJob EXCEPT !.op = "createProduct",
                                            !.pc = "done", !.status = 500]]
          /\ UNCHANGED products
     ELSE /\ products' = ("p3" :> [price |-> Round2(body["price"]),
                                    stock |-> body["stock"],
                                    category_id |-> body["categoryId"]])
                          @@ products
          /\ job' = [job EXCEPT ![a] = [NoJob EXCEPT !.op = "createProduct",
                                            !.pc = "done", !.status = 201]]
  /\ UNCHANGED <<placement, adminResp, carts, categories, nextCategory>>

\* Inputs: a new category with a free slug and one with the slug of category
\* 1; patches of no field, one field and both fields; products created in
\* or moved to any category number.
CategoryInputs ==
  {[name |-> "n2", slug |-> "b"], [name |-> "n2", slug |-> "a"],
   [name |-> "n2", slug |-> "B!"]}

CategoryPatches ==
  {EmptyMap, [f \in {"name"} |-> "n2"], [f \in {"slug"} |-> "b"],
   [name |-> "n2", slug |-> "b"]}

CategoryIdInputs == 1..MaxCategories

ProductInputs ==
  {[price |-> 700, stock |-> 1, categoryId |-> c] : c \in CategoryIdInputs}

SparsePatches ==
  {EmptyMap, [f \in {"price"} |-> 700], [f \in {"stock"} |-> 1]}
  \cup {[f \in {"categoryId"} |-> c] : c \in CategoryIdInputs}

\* Two administrators creating and updating categories.
NextSlug ==
  \E a \in Admins :
    \/ \E body \in CategoryInputs : CreateCategory(a, body)
    \/ InsertCategory(a)
    \/ \E id \in CategoryIdInputs, patch \in CategoryPatches :
         UpdateCategory(a, id, patch)
    \/ CheckSlugConflict(a)
    \/ UpdateCategoryRow(a)

SpecSlug == Init /\ [][NextSlug]_vars

\* One administrator updating categories and product p1.
NextPatch ==
  \/ \E body \in CategoryInputs : CreateCategory("a1", body)
  \/ InsertCategory("a1")
  \/ \E id \in CategoryIdInputs, patch \in CategoryPatches :
       UpdateCategory("a1", id, patch)
  \/ CheckSlugConflict("a1")
  \/ UpdateCategoryRow("a1")
  \/ \E patch \in SparsePatches : UpdateProduct("p1", patch)

SpecPatch == Init /\ [][NextPatch]_vars

\* Two administrators deleting categories while products are created in
\* them or moved to them.
NextDelete ==
  \/ \E a \in Admins :
       \/ CreateCategory(a, [name |-> "n2", slug |-> "b"])
       \/ InsertCategory(a)
       \/ \E id \in CategoryIdInputs : DeleteCategory(a, id)
       \/ DeleteCategoryRow(a)
       \/ \E body \in ProductInputs : CreateProduct(a, body)
  \/ \E c \in CategoryIdInputs : UpdateProduct("p1", [f \in {"categoryId"} |-> c])

SpecDelete == Init /\ [][NextDelete]_vars

----------------------------------------------------------------------------
(* The cart routes. Every statement runs on the pool, so each is its own    *)
(* transaction; a handler is one action per await, its first SELECT joined  *)
(* with the arrival of the request.                                         *)

MaxCartItems == 2

\* The rows of a user's cart for a product: UNIQUE KEY (user_id, product_id)
\* makes an INSERT fail when one exists.
CartRowsOf(user, productId) ==
  {row \in cartItems : row.user_id = user /\ row.product_id = productId}

\* The session answers and is free for its next request.
CartAnswer(k, op, user, id, productId, quantity, status) ==
  cart' = [cart EXCEPT ![k] =
             [op |-> op, pc |-> "idle", user |-> user, id |-> id,
              productId |-> productId, quantity |-> quantity,
              stock |-> 0, newQuantity |-> 0, status |-> status]]

\* The session waits for its next statement.
CartAwait(k, op, at, user, id, productId, quantity, stock) ==
  cart' = [cart EXCEPT ![k] =
             [op |-> op, pc |-> at, user |-> user, id |-> id,
              productId |-> productId, quantity |-> quantity,
              stock |-> stock, newQuantity |-> 0, status |-> 0]]

\* UPDATE cart_items SET quantity = ? WHERE id = ?
WithQuantity(rows, id, quantity) ==
  {IF row.id = id THEN [row EXCEPT !.quantity = quantity] ELSE row :
     row \in rows}

\* cart routes, lines 49-74: POST /items up to the SELECT of the product.
AddItem(k, user, productId, quantity) ==
  /\ cart[k].pc = "idle"
  /\ nextCartItem <= MaxCartItems
  /\ IF quantity < 1
     THEN CartAnswer(k, "add", user, 0, productId, quantity, 400)
     ELSE IF productId \notin DOMAIN products
     THEN CartAnswer(k, "add", user, 0, productId, quantity, 404)
     ELSE IF products[productId].stock < quantity
     THEN CartAnswer(k, "add", user, 0, productId, quantity, 400)
     ELSE CartAwait(k, "add", "existing", user, 0, productId, quantity,
                    products[productId].stock)
  /\ UNCHANGED <<products, placement, adminResp, catalog, cartItems,
                 nextCartItem>>

\* cart routes, lines 76-87: the SELECT of the user's row for the product, and
\* the new quantity computed from the quantity it returned.
FindExisting(k) ==
  /\ cart[k].pc = "existing"
  /\ LET c == cart[k]
         existingItems == CartRowsOf(c.user, c.productId)
     IN IF existingItems # {}
        THEN LET row == CHOOSE x \in existingItems : TRUE
                 newQuantity == row.quantity + c.quantity
             IN IF c.stock < newQuantity
                THEN CartAnswer(k, "add", c.user, row.id, c.productId,
                                c.quantity, 400)
                ELSE cart' = [cart EXCEPT ![k].pc = "update",
                                          ![k].id = row.id,
                                          ![k].newQuantity = newQuantity]
        ELSE CartAwait(k, "add", "insert", c.user, 0, c.productId,
                       c.quantity, c.stock)
  /\ UNCHANGED <<products, placement, adminResp, catalog, cartItems,
                 nextCartItem>>

\* cart routes, lines 89-92 and 101: the UPDATE of the row to the new quantity.
UpdateExisting(k) ==
  /\ cart[k].pc = "update"
  /\ LET c == cart[k]
     IN /\ cartItems' = WithQuantity(cartItems, c.id, c.newQuantity)
        /\ CartAnswer(k, "add", c.user, c.id, c.productId, c.quantity, 201)
  /\ UNCHANGED <<products, placement, adminResp, catalog, nextCartItem>>

\* InsertItem that also takes the quantity from the product's stock.
InsertItemReserving(k) ==
  /\ cart[k].pc = "insert"
  /\ nextCartItem <= MaxCartItems
  /\ LET c == cart[k]
     IN /\ CartRowsOf(c.user, c.productId) = {}
        /\ c.productId \in DOMAIN products
        /\ cartItems' = cartItems \cup
             {[id |-> nextCartItem, user_id |-> c.user,
               product_id |-> c.productId, quantity |-> c.quantity]}
        /\ products' = [products EXCEPT ![c.productId].stock =
                          @ - c.quantity]
        /\ nextCartItem' = nextCartItem + 1
        /\ CartAnswer(k, "add", c.user, nextCartItem, c.productId,
                      c.quantity, 201)
  /\ UNCHANGED <<placement, adminResp, catalog>>

\* cart routes, lines 94-105: the INSERT of a new row; a row of the same user and
\* product, or a product gone, makes the statement fail and the catch answer.
InsertItem(k) ==
  /\ cart[k].pc = "insert"
  /\ nextCartItem <= MaxCartItems
  /\ LET c == cart[k]
     IN IF CartRowsOf(c.user, c.productId) # {}
           \/ c.productId \notin DOMAIN products
        THEN /\ CartAnswer(k, "add", c.user, 0, c.productId, c.quantity, 500)
             /\ UNCHANGED <<cartItems, nextCartItem>>
        ELSE /\ cartItems' = cartItems \cup
                  {[id |-> nextCartItem, user_id |-> c.user,
                    product_id |-> c.productId, quantity |-> c.quantity]}
             /\ nextCartItem' = nextCartItem + 1
             /\ CartAnswer(k, "add", c.user, nextCartItem, c.productId,
                           c.quantity, 201)
  /\ UNCHANGED <<products, placement, adminResp, catalog>>

\* UpdateItem selecting the row by its id alone.
UpdateItemAnyUser(k, user, id, quantity) ==
  /\ cart[k].pc = "idle"
  /\ LET found == {row \in cartItems : row.id = id}
     IN IF quantity < 1
        THEN CartAnswer(k, "update", user, id, "none", quantity, 400)
        ELSE IF found = {}
        THEN CartAnswer(k, "update", user, id, "none", quantity, 404)
        ELSE LET cartItem == CHOOSE x \in found : TRUE
                 stock == products[cartItem.product_id].stock
             IN IF stock < quantity
                THEN CartAnswer(k, "update", user, id, cartItem.product_id,
                                quantity, 400)
                ELSE CartAwait(k, "update", "set", user, id,
                               cartItem.product_id, quantity, stock)
  /\ UNCHANGED <<products, placement, adminResp, catalog, cartItems,
                 nextCartItem>>

\* cart routes, lines 109-136: PUT /items/:id up to the SELECT of the user's row
\* joined with its product.
UpdateItem(k, user, id, quantity) ==
  /\ cart[k].pc = "idle"
  /\ LET found == {row \in cartItems : row.id = id /\ row.user_id = user}
     IN IF quantity < 1
        THEN CartAnswer(k, "update", user, id, "none", quantity, 400)
        ELSE IF found = {}
        THEN CartAnswer(k, "update", user, id, "none", quantity, 404)
        ELSE LET cartItem == CHOOSE x \in found : TRUE
                 stock == products[cartItem.product_id].stock
             IN IF stock < quantity
                THEN CartAnswer(k, "update", user, id, cartItem.product_id,
                                quantity, 400)
                ELSE CartAwait(k, "update", "set", user, id,
                               cartItem.product_id, quantity, stock)
  /\ UNCHANGED <<products, placement, adminResp, catalog, cartItems,
                 nextCartItem>>

\* cart routes, lines 138-143: the UPDATE of the row, by its id.
SetQuantity(k) ==
  /\ cart[k].pc = "set"
  /\ LET c == cart[k]
     IN /\ cartItems' = WithQuantity(cartItems, c.id, c.quantity)
        /\ CartAnswer(k, "update", c.user, c.id, c.productId, c.quantity, 200)
  /\ UNCHANGED <<products, placement, adminResp, catalog, nextCartItem>>

\* cart routes, lines 151-169: DELETE /items/:id.
RemoveItem(k, user, id) ==
  /\ cart[k].pc = "idle"
  /\ LET affected == {row \in cartItems : row.id = id /\ row.user_id = user}
     IN /\ cartItems' = cartItems \ affected
        /\ CartAnswer(k, "remove", user, id, "none", 0,
                      IF affected = {} THEN 404 ELSE 200)
  /\ UNCHANGED <<products, placement, adminResp, catalog, nextCartItem>>

\* cart routes, lines 172-180: DELETE /.
ClearCart(k, user) ==
  /\ cart[k].pc = "idle"
  /\ cartItems' = {row \in cartItems : row.user_id # user}
  /\ CartAnswer(k, "clear", user, 0, "none", 0, 200)
  /\ UNCHANGED <<products, placement, adminResp, catalog, nextCartItem>>

\* Cart inputs: a quantity below the minimum, every item id that can have
\* been issued, a restock of p1.
CartQuantities == 0..MaxQty

\* The quantities an item is set to: below the minimum, and two.
CartUpdates == {0, 2}

CartItemIds == 1..MaxCartItems

Restocks == {[f \in {"stock"} |-> 3]}

\* The statements of POST /items after its first SELECT.
AddStep(k) ==
  \/ FindExisting(k)
  \/ UpdateExisting(k)
  \/ InsertItem(k)

\* Two requests of one user adding p1 to the cart, p1 restocked.
NextAdd ==
  \/ \E k \in Sessions :
       \/ \E quantity \in CartQuantities : AddItem(k, "u1", "p1", quantity)
       \/ AddStep(k)
  \/ \E patch \in Restocks : UpdateProduct("p1", patch)

SpecAdd == Init /\ [][NextAdd]_vars

\* The user of each session while two users work on their carts.
UserOf == ("k1" :> "u1") @@ ("k2" :> "u2")

\* Two users' requests on their carts: each adds p1, and updates and removes
\* items by every id issued, the other user's included.
NextCart ==
  \E k \in Sessions :
    \/ AddItem(k, UserOf[k], "p1", 1)
    \/ AddStep(k)
    \/ \E id \in CartItemIds, quantity \in CartUpdates :
         UpdateItem(k, UserOf[k], id, quantity)
    \/ SetQuantity(k)
    \/ \E id \in CartItemIds : RemoveItem(k, UserOf[k], id)
    \/ ClearCart(k, UserOf[k])

SpecCart == Init /\ [][NextCart]_vars

\* One user's requests on the cart while the user places orders.
NextCartOrders ==
  \/ \E r \in AdminRequests : Start("u1", r)
  \/ BeginFails("u1")
  \/ PlacementStep("u1")
  \/ AddItem("k1", "u1", "p1", 1)
  \/ AddStep("k1")
  \/ \E id \in CartItemIds, quantity \in CartUpdates :
       UpdateItem("k1", "u1", id, quantity)
  \/ SetQuantity("k1")
  \/ \E id \in CartItemIds : RemoveItem("k1", "u1", id)
  \/ ClearCart("k1", "u1")

SpecCartOrders == Init /\ [][NextCartOrders]_vars

----------------------------------------------------------------------------
(* Vocabulary of the properties *)

\* Two answers to the administrator are the same answer; the id of an order
\* is a number and the id of a product a string, so the ids are compared
\* only for answers of the same operation.
SameAnswer(x, y) == x.op = y.op /\ x.id = y.id /\ x.status = y.status

Committed == {"readOrder", "readItems"}

WritePhase == {"address", "order", "item", "stock"}

BusinessKinds == {"ProductNotFound", "InsufficientStock", "TotalMismatch"}

\* Call c has no row in the given order, order line and address tables.
NoRowOf(c, os, ls, as) ==
  /\ \A o \in os : o.id # c
  /\ \A l \in ls : l.order_id # c
  /\ \A a \in as : a.id # c

NothingOf(c) == NoRowOf(c, orders, orderItems, addresses)

RECURSIVE SumQuantity(_)
SumQuantity(S) ==
  IF S = {} THEN 0
  ELSE LET l == CHOOSE x \in S : TRUE IN l.quantity + SumQuantity(S \ {l})

RECURSIVE SumLines(_)
SumLines(S) ==
  IF S = {} THEN 0
  ELSE LET l == CHOOSE x \in S : TRUE
       IN l.price * l.quantity + SumLines(S \ {l})

LinesOf(o) == {l \in orderItems : l.order_id = o.id}

\* Quantity of product p in the lines of committed orders.
OrderedQuantity(p) ==
  SumQuantity({l \in orderItems :
                 l.product_id = p /\ \E o \in orders : o.id = l.order_id})

----------------------------------------------------------------------------
(* Stock under concurrent placements *)

\* C1: in every reachable state every product's stock is >= 0, under any
\* interleaving of concurrent placements.
C1_StockNeverNegative == \A p \in DOMAIN products : products[p].stock >= 0

\* C2: when a stock UPDATE of the write phase would leave the stock negative,
\* the placement is aborted with InsufficientStock and commits nothing.
C2_NegativeDecrementAborts ==
  [][\A w \in Handlers :
       (/\ pc[w] = "stock"
        /\ pc'[w] # "stock"
        /\ resp'[w].status # 500
        /\ NewStock(w, req[w].items[idx[w]].productId,
                    req[w].items[idx[w]].quantity) < 0)
       => (/\ resp'[w].kind = "InsufficientStock"
           /\ tx'[w] = EmptyTx
           /\ store' = store)]_vars

\* C3: for every committed placement and each of its lines, the stock found
\* immediately before the line's decrement is the stock the placement compared
\* the quantity against.
C3_CheckedStockIsDecrementedStock ==
  \A w \in Handlers :
    pc[w] \in Committed =>
      \A p \in DOMAIN seen[w] : seen[w][p] = productMap[w][p].stock

\* C4: each product's stock is its initial stock minus the quantities of the
\* lines of exactly the committed placements, whatever the interleaving; every
\* order line belongs to a committed order.
C4_StockConservation ==
  /\ \A l \in orderItems : \E o \in orders : o.id = l.order_id
  /\ \A p \in DOMAIN products :
       products[p].stock = InitProducts[p].stock - OrderedQuantity(p)

\* Two placements that overlapped have both committed a line of one product.
C4_Witness ==
  \E w \in Handlers, v \in Handlers :
    /\ w # v
    /\ pc[w] \in Committed
    /\ pc[v] \in Committed
    /\ DOMAIN seen[w] \cap DOMAIN seen[v] # {}

----------------------------------------------------------------------------
(* Rollback *)

\* C5: a placement rejected by a business rule (product not found, stock
\* shortage, total or VAT mismatch) has written nothing and the rejecting step
\* changes no table: no order, order line, address or stock differs.
C5_RejectionLeavesStoreUnchanged ==
  [][\A w \in Handlers :
       (resp'[w] # resp[w] /\ resp'[w].kind \in BusinessKinds)
       => (/\ store' = store
           /\ tx[w] = EmptyTx
           /\ tx'[w] = EmptyTx
           /\ NoRowOf(resp'[w].call, orders', orderItems', addresses'))]_vars

\* A stock shortage was rejected after another order had committed, and the
\* rejected call left no row.
C5_Witness ==
  \E w \in Handlers :
    /\ resp[w].kind = "InsufficientStock"
    /\ orders # {}
    /\ NothingOf(resp[w].call)

C7_ErrorResponseCommitsNothing ==
  \A w \in Handlers :
    resp[w].status \in {400, 500} => NothingOf(resp[w].call)

----------------------------------------------------------------------------
(* Pricing *)

\* C8: the stored total and vatAmount of every order are the server-computed
\* figures (catalog price x quantity, plus 18% VAT), not the client's.
C8_StoredTotalIsAuthoritative ==
  \A o \in orders :
    /\ o.total = Round2(expectedTotal(SumLines(LinesOf(o))))
    /\ o.vat_amount = Round2(expectedVat(SumLines(LinesOf(o))))

\* C9: the stored total of every order is within 0.01 of the catalog price x
\* quantity of its lines times 1.18.
C9_StoredTotalWithinTolerance ==
  \A o \in orders :
    Abs(o.total - expectedTotal(SumLines(LinesOf(o)))) <= Tolerance

\* C10: the stored total of every order equals the sum of its lines' price x
\* quantity plus the stored vatAmount, within 0.01.
C10_TotalIsLinesPlusVat ==
  \A o \in orders :
    Abs(o.total - (SumLines(LinesOf(o)) + o.vat_amount)) <= Tolerance

----------------------------------------------------------------------------
(* The checks of the placement, stated on the request and the catalog *)

\* Handler w leaves the product lookup without a store failure.
LeavesSelect(w) ==
  pc[w] = "select" /\ pc'[w] # "select" /\ resp'[w].status # 500

\* Handler w goes on to the write phase.
Accepted(w) == pc'[w] \in {"address", "order"}

Committing(w) == pc[w] = "commit" /\ pc'[w] = "readOrder"

AllExist(r) == \A i \in 1..Len(r.items) : r.items[i].productId \in DOMAIN products

\* Quantity the request asks of product p, over all its entries.
Requested(r, p) ==
  SumQuantity({[line |-> i, quantity |-> r.items[i].quantity] :
                 i \in {j \in 1..Len(r.items) : r.items[j].productId = p}})

SomeLineShort(r) ==
  \E i \in 1..Len(r.items) : r.items[i].quantity > products[r.items[i].productId].stock

Repeats(r) ==
  \E i \in 1..Len(r.items), j \in 1..Len(r.items) :
    i # j /\ r.items[i].productId = r.items[j].productId

\* Catalog unit price x quantity over the entries of the request.
AuthoritativeSubtotal(r) ==
  SumLines({[line |-> i, price |-> products[r.items[i].productId].price,
             quantity |-> r.items[i].quantity] : i \in 1..Len(r.items)})

WithinTolerance(r) ==
  /\ Abs((AuthoritativeSubtotal(r) * 118) \div 100 - r.total) <= Tolerance
  /\ Abs((AuthoritativeSubtotal(r) * 18) \div 100 - r.vatAmount) <= Tolerance

\* C11: a placement whose products all exist with sufficient stock is accepted
\* only if claimed total and claimed VAT are both within 0.01 of the server's
\* figures; if either is further off it is rejected with TotalMismatch (400)
\* and no stock changes.
C11_MismatchRejected ==
  [][\A w \in Handlers :
       LeavesSelect(w) /\ AllExist(req[w]) /\ ~SomeLineShort(req[w])
       => /\ Accepted(w) => WithinTolerance(req[w])
          /\ ~WithinTolerance(req[w])
               => /\ resp'[w].status = 400
                  /\ resp'[w].kind = "TotalMismatch"
                  /\ products' = products]_vars

\* C12: a placement is rejected with ProductNotFound exactly when some
\* requested product id has no product in the catalog; no stock changes then.
C12_NotFoundIffMissing ==
  [][\A w \in Handlers :
       LeavesSelect(w)
       => /\ (resp'[w].kind = "ProductNotFound") <=> ~AllExist(req[w])
          /\ resp'[w].kind = "ProductNotFound" => products' = products]_vars

\* C13: a request that repeats an existing product id, with sufficient stock
\* and matching total and VAT, is placed, with one order line per entry.
C13_RepeatedProductPlaced ==
  [][\A w \in Handlers :
       /\ (/\ LeavesSelect(w)
           /\ Repeats(req[w])
           /\ AllExist(req[w])
           /\ \A p \in productIds(req[w].items) :
                Requested(req[w], p) <= products[p].stock
           /\ WithinTolerance(req[w]))
          => Accepted(w)
       /\ (Committing(w) /\ Repeats(req[w]))
          => Cardinality(tx[w].orderItems) = Len(req[w].items)]_vars

\* C14: a placement whose products all exist is rejected with InsufficientStock
\* (400) if and only if some line asks more than the stock read for its
\* product; a line asking exactly the stock passes and, once the placement
\* commits, leaves the product with stock 0.
C14_ShortIffRejected ==
  [][\A w \in Handlers :
       /\ (LeavesSelect(w) /\ AllExist(req[w]))
          => ((resp'[w].status = 400 /\ resp'[w].kind = "InsufficientStock")
              <=> SomeLineShort(req[w]))
       /\ Committing(w)
          => \A i \in 1..Len(req[w].items) :
               LET l == req[w].items[i]
               IN l.quantity = productMap[w][l.productId].stock
                  => products'[l.productId].stock = 0]_vars

\* C15: a successful placement creates exactly one order row, pending, of the
\* acting user, exactly one order line per request entry with that entry's
\* product id and quantity, and reduces each referenced product's stock by the
\* requested quantity; the stock of other products is unchanged.
C15_PlacementEffect ==
  [][\A w \in Handlers :
       /\ Committing(w)
          => /\ \E o \in orders' :
                  /\ orders' = orders \cup {o}
                  /\ o \notin orders
                  /\ o.id = call[w]
                  /\ o.user_id = w
                  /\ o.status = "pending"
             /\ Cardinality(orderItems' \ orderItems) = Len(req[w].items)
             /\ orderItems \subseteq orderItems'
             /\ \A i \in 1..Len(req[w].items) :
                  \E l \in orderItems' \ orderItems :
                    /\ l.id = <<call[w], i>>
                    /\ l.order_id = call[w]
                    /\ l.product_id = req[w].items[i].productId
                    /\ l.quantity = req[w].items[i].quantity
             /\ \A p \in DOMAIN products :
                  products'[p].stock = products[p].stock - Requested(req[w], p)
       /\ (pc[w] = "readItems" /\ resp'[w].status = 201)
          => /\ \E o \in orders : o.id = call[w]
             /\ store' = store]_vars

\* A two-line placement answered 201: two lines, 2 -> 1 and 1 -> 0 in stock.
C15_Witness ==
  \E w \in Handlers :
    /\ resp[w].status = 201
    /\ Cardinality({l \in orderItems : l.order_id = resp[w].call}) = 2
    /\ products["p1"].stock = 1
    /\ products["p2"].stock = 0

\* What the validators of POST /orders refuse.
BadInput(r) ==
  \/ Len(r.items) = 0
  \/ \E i \in 1..Len(r.items) : r.items[i].quantity < 1
  \/ r.total < 0
  \/ r.vatAmount < 0
  \/ r.paymentMethod \notin {"mobile_money", "card", "cash"}
  \/ r.shippingAddress = "text"

BadRequests == {r \in Requests : BadInput(r)}

\* C17: a request that fails input validation is answered 400 before any
\* product lookup or write, in whatever state the call is made (so repeating
\* it gives the same rejection), and changes nothing.
C17_InvalidInputRejectedFirst ==
  [][\A w \in Handlers : \A r \in BadRequests :
       (nextCall' # nextCall /\ Start(w, r))
       => /\ resp'[w].status = 400
          /\ resp'[w].kind = "ValidationFailed"
          /\ pc'[w] = "done"
          /\ productMap' = productMap
          /\ tx' = tx
          /\ store' = store]_vars

\* Two calls were refused by the validators and the store is as at the start.
C17_Witness ==
  /\ \A w \in Handlers : resp[w].kind = "ValidationFailed"
  /\ products = InitProducts
  /\ orders = {} /\ orderItems = {} /\ addresses = {}

\* C18: every call's response is determined by its outcome: 201 if and only
\* if its order was committed, 400 for validation failure, product not found,
\* insufficient stock and total mismatch, 500 only for a store failure.
C18_StatusMatchesOutcome ==
  \A w \in Handlers :
    resp[w].status # 0
    => /\ (resp[w].status = 201) <=> (\E o \in orders : o.id = resp[w].call)
       /\ resp[w].kind \in {"ValidationFailed"} \cup BusinessKinds
            <=> resp[w].status = 400
       /\ resp[w].kind = "PersistenceFailure" <=> resp[w].status = 500

\* C20: every address row is referenced by exactly one committed order, of
\* the same user; address rows appear only with the commit of a placement:
\* exactly one, referenced by the new order, when a shippingAddress was given,
\* none (and a null reference) otherwise.
C20_AddressOwnedByOneOrder ==
  [][/\ \A a \in addresses' :
          /\ Cardinality({o \in orders' : o.shipping_address_id = a.id}) = 1
          /\ \A o \in orders' : o.shipping_address_id = a.id => o.user_id = a.user_id
     /\ \A o \in orders' :
          o.shipping_address_id = 0 \/ \E a \in addresses' : a.id = o.shipping_address_id
     /\ (\A w \in Handlers : ~Committing(w)) => addresses' = addresses
     /\ \A w \in Handlers :
          Committing(w)
          => \E o \in orders' \ orders :
               IF HasAddress(req[w])
               THEN /\ {[id |-> a.id, user_id |-> a.user_id] : a \in addresses' \ addresses}
                       = {[id |-> o.shipping_address_id, user_id |-> w]}
                    /\ o.shipping_address_id # 0
               ELSE /\ addresses' = addresses
                    /\ o.shipping_address_id = 0]_vars

\* One committed order has an address, another has none.
C20_Witness ==
  /\ addresses # {}
  /\ \E o \in orders : o.shipping_address_id = 0
  /\ \E o \in orders : o.shipping_address_id # 0

\* C16: an order line appears with the commit of its placement, carrying the
\* unit price that placement read from the catalog, and no later step, a
\* product update or an order status update included, changes or removes a
\* line: its price, quantity and product id stay as recorded.
C16_LinePriceIsSnapshot ==
  [][/\ \A l \in orderItems : l \in orderItems'
     /\ \A l \in orderItems' \ orderItems :
          \E w \in Handlers :
            /\ Committing(w)
            /\ l.order_id = call[w]
            /\ l.price = productMap[w][l.product_id].price]_vars

\* A line of a shipped order keeps a price the catalog no longer has.
C16_Witness ==
  \E l \in orderItems :
    /\ l.price # products[l.product_id].price
    /\ \E o \in orders : o.id = l.order_id /\ o.status = "shipped"

\* C19: every order's status is one of pending, processing, shipped,
\* delivered, cancelled; a new order is pending; a status changes only by a
\* status update answered 200; a status update with a value outside the enum
\* is answered 400 and one of an unknown order 404, both changing no order.
C19_StatusInEnum ==
  [][(orders' # orders \/ ~SameAnswer(adminResp', adminResp))
     => /\ \A o \in orders' : o.status \in OrderStatuses
        /\ \A o \in orders' :
             (\A o0 \in orders : o0.id # o.id) => o.status = "pending"
        /\ \A o0 \in orders, o \in orders' :
             (o.id = o0.id /\ o.status # o0.status)
             => /\ SameAnswer(adminResp', AdminResponse("status", o.id, 200))
                /\ pc' = pc
                /\ orders' \ {o} = orders \ {o0}
        /\ \A id \in OrderIdInputs, status \in StatusInputs :
             (adminResp'.op = "status" /\ UpdateStatus(id, status))
             => /\ status \notin OrderStatuses
                   => adminResp'.status = 400 /\ orders' = orders
                /\ (status \in OrderStatuses /\ \A o \in orders : o.id # id)
                   => adminResp'.status = 404 /\ orders' = orders]_vars

\* A status update was just rejected while one order is shipped and another
\* is still pending.
C19_Witness ==
  /\ adminResp.op = "status"
  /\ adminResp.status \in {400, 404}
  /\ \E o \in orders : o.status = "shipped"
  /\ \E o \in orders : o.status = "pending"

\* C21: the order of a 201 response is the committed order: its id, total,
\* vatAmount, payment method and notes are those of the persisted header, its
\* items are exactly the committed lines of this call, one per request entry
\* with the price the placement read, and its shippingAddress is the address
\* this call wrote, or null when the request had none.
C21_ReturnedOrderIsCommitted ==
  [][\A w \in Handlers :
       (resp'[w].status = 201 /\ resp[w].status # 201)
       => LET b == order'[w]
              mine == {l \in orderItems' : l.order_id = call[w]}
          IN /\ \E o \in orders' :
                  /\ o.id = call[w] /\ b.id = o.id
                  /\ b.total = o.total /\ b.vatAmount = o.vat_amount
                  /\ b.paymentMethod = o.payment_method /\ b.notes = o.notes
                  /\ IF HasAddress(req[w])
                     THEN \E a \in addresses' :
                            /\ a.id = o.shipping_address_id /\ a.id = call[w]
                            /\ b.shippingAddress = a.street
                     ELSE b.shippingAddress = "null"
             /\ b.items = {[id |-> l.id, productId |-> l.product_id,
                            quantity |-> l.quantity, price |-> l.price] : l \in mine}
             /\ Cardinality(b.items) = Len(req[w].items)
             /\ \A i \in b.items : i.price = productMap[w][i.productId].price]_vars

Calls(w, name) == {i \in DOMAIN txLog[w] : txLog[w][i] = name}

\* The uncommitted writes a placement holds when every write succeeded.
AllWritten(w) ==
  /\ Verdict(req[w], productMap[w]) = "ok"
  /\ tx[w].orders = {OrderRow(w)}
  /\ tx[w].addresses = IF HasAddress(req[w]) THEN {AddressRow(w)} ELSE {}
  /\ Cardinality(tx[w].orderItems) = Len(req[w].items)
  /\ \A i \in 1..Len(req[w].items) : req[w].items[i].productId \in DOMAIN tx[w].stock

\* C22: a placement's connection is released exactly once, with its
\* response; its transaction is committed at most once and never after a
\* rollback; a 201 call committed and did not roll back, every other answered
\* call rolled back last and holds no uncommitted write; the commit happens
\* only with every check passed and every write made; the tables change only
\* by a commit, which publishes exactly the connection's writes.
C22_TransactionEndsOnce ==
  [][/\ \A w \in Handlers :
          /\ released'[w] <= 1
          /\ released'[w] = 1 <=> pc'[w] = "done"
          /\ Cardinality(Calls(w, "commit")') <= 1
          /\ \A i \in Calls(w, "rollback")', j \in Calls(w, "commit")' : j < i
          /\ pc'[w] = "done"
             => /\ tx'[w] = EmptyTx
                /\ resp'[w].status = 201
                   => Calls(w, "commit")' # {} /\ Calls(w, "rollback")' = {}
                /\ resp'[w].status # 201
                   => txLog'[w][Len(txLog'[w])] = "rollback"
                /\ resp'[w].status = 400 => Calls(w, "commit")' = {}
          /\ Committing(w) => AllWritten(w)
     /\ store' # store
        => \E w \in Handlers :
             /\ Committing(w)
             /\ addresses' = addresses \cup tx[w].addresses
             /\ orders' = orders \cup tx[w].orders
             /\ orderItems' = orderItems \cup tx[w].orderItems
             /\ \A p \in DOMAIN products :
                  products'[p] # products[p] => p \in DOMAIN tx[w].stock]_vars

\* One call answered 201 after its commit, the other rolled back a placement
\* that had already written, both with their connection released.
C22_Witness ==
  \E w, v \in Handlers :
    /\ resp[w].status = 201 /\ txLog[w] = <<"beginTransaction", "commit">>
    /\ resp[v].status = 500 /\ resp[v].at = "commit"
    /\ txLog[v] = <<"beginTransaction", "rollback">>
    /\ released[w] = 1 /\ released[v] = 1

\* The value a patch gives column f, or the row's own when the patch has no
\* field for it.
Given(row, f, patch, key) == IF key \in DOMAIN patch THEN patch[key] ELSE row[f]

\* C23: an update of an existing category or product with no updatable field
\* is answered 400 and writes nothing; an update answered 200 leaves the row
\* with the value given for each field present and its previous value for
\* each field absent, and leaves every other row as it was; an update
\* answered otherwise writes nothing.
C23_SparsePatch ==
  [][/\ \A a \in Admins :
          /\ \A id \in DOMAIN categories :
               (job' # job /\ UpdateCategory(a, id, EmptyMap))
               => job'[a].status = 400 /\ job'[a].pc = "done"
          /\ (job[a].op = "updateCategory" /\ job'[a] # job[a])
             => LET id == job[a].id
                    patch == job[a].patch
                IN IF job'[a].status = 200 /\ id \in DOMAIN categories
                   THEN /\ DOMAIN categories' = DOMAIN categories
                        /\ \A c \in DOMAIN categories \ {id} :
                             categories'[c] = categories[c]
                        /\ \A f \in {"name", "slug"} :
                             categories'[id][f] = Given(categories[id], f, patch, f)
                   ELSE categories' = categories
     /\ \A patch \in SparsePatches :
          ((~SameAnswer(adminResp', adminResp) \/ products' # products)
           /\ UpdateProduct("p1", patch))
          => /\ DOMAIN patch = {} => adminResp'.status = 400
             /\ IF adminResp'.status = 200
                THEN /\ DOMAIN products' = DOMAIN products
                     /\ \A p \in DOMAIN products \ {"p1"} : products'[p] = products[p]
                     /\ LET old == products["p1"]
                            new == products'["p1"]
                        IN /\ new.price = Given(old, "price", patch, "price")
                           /\ new.stock = Given(old, "stock", patch, "stock")
                           /\ new.category_id
                              = Given(old, "category_id", patch, "categoryId")
                ELSE products' = products]_vars

\* Category 1 was renamed and kept its slug beside a second category; p1 was
\* repriced and kept its stock and category; the last update had no field.
C23_Witness ==
  /\ categories[1] = [name |-> "n2", slug |-> "a"]
  /\ 2 \in DOMAIN categories
  /\ products["p1"] = [price |-> 700, stock |-> 2, category_id |-> 1]
  /\ products["p2"] = InitProducts["p2"]
  /\ SameAnswer(adminResp, AdminResponse("product", "p1", 400))

\* A category request is answered in this step.
Answered(a) == job[a].pc # "done" /\ job'[a].pc = "done"

\* C29: no two categories share a slug; a category creation whose slug a
\* category holds, and a category update to a slug a different category
\* holds, when the request is answered, is answered 400 and changes nothing,
\* also when two requests for the same slug run concurrently.
C29_SlugUnique ==
  [][/\ \A c, d \in DOMAIN categories' :
          categories'[c].slug = categories'[d].slug => c = d
     /\ \A a \in Admins :
          (Answered(a) /\ job[a].op \in {"createCategory", "updateCategory"}
           /\ "slug" \in DOMAIN job[a].patch
           /\ SlugHolders(job[a].patch["slug"], job[a].id) # {})
          => job'[a].status = 400 /\ categories' = categories
     /\ \A a \in Admins, body \in CategoryInputs :
          (job'[a] # job[a] /\ ValidCategory(body)
           /\ SlugHolders(body["slug"], 0) # {} /\ CreateCategory(a, body))
          => job'[a].status = 400 /\ job'[a].pc = "done"]_vars

\* C30: every product's category exists; a category that has a product is
\* not deleted or changed by any step; a delete request answered while the
\* category has a product is answered 400 and changes nothing, also when the
\* product was created in or moved to the category during the request.
C30_NoDeleteWithProducts ==
  [][/\ \A p \in DOMAIN products' : products'[p].category_id \in DOMAIN categories'
     /\ \A c \in DOMAIN categories :
          ProductsIn(c) # {} => c \in DOMAIN categories' /\ categories'[c] = categories[c]
     /\ \A a \in Admins :
          /\ (Answered(a) /\ job[a].op = "deleteCategory"
              /\ ProductsIn(job[a].id) # {})
             => job'[a].status = 400 /\ categories' = categories
          /\ \A id \in DOMAIN categories :
               (job'[a] # job[a] /\ ProductsIn(id) # {} /\ DeleteCategory(a, id))
               => job'[a].status = 400 /\ job'[a].pc = "done"]_vars

C25_StatusChangeOnly ==
  [][\A id \in OrderIdInputs, status \in StatusMoves :
       ((~SameAnswer(adminResp', adminResp) \/ orders' # orders)
        /\ (\E o \in orders : o.id = id) /\ UpdateStatus(id, status))
       => /\ SameAnswer(adminResp', AdminResponse("status", id, 200))
          /\ orders' = {IF o.id = id THEN [o EXCEPT !.status = status] ELSE o :
                          o \in orders}
          /\ products' = products
          /\ orderItems' = orderItems
          /\ addresses' = addresses]_vars

\* An order was cancelled and the stock it took is still taken; another
\* order is back to pending after having been answered as delivered.
C25_Witness ==
  /\ \E o \in orders :
       /\ o.status = "cancelled"
       /\ \E l \in orderItems : l.order_id = o.id /\ l.product_id = "p1"
  /\ products["p1"].stock = InitProducts["p1"].stock - OrderedQuantity("p1")
  /\ OrderedQuantity("p1") > 0
  /\ adminResp.status = 200 /\ adminResp.op = "status"

----------------------------------------------------------------------------
(* The cart *)

\* The quantity of a product in a user's cart, 0 when it is not there.
QuantityOf(user, productId) == SumQuantity(CartRowsOf(user, productId))

\* The cart rows of the other users.
OthersRows(user) == {row \in cartItems : row.user_id # user}

\* The cart holds at most one row per user and product.
CartRowUnique ==
  \A x, y \in cartItems :
    x.user_id = y.user_id /\ x.product_id = y.product_id => x = y

\* C26: an add-to-cart answered 201 leaves the user's quantity of the
\* product at what it was plus the added amount, so that two such requests
\* of one user for one product, in any interleaving, leave the previous
\* quantity plus the sum of both; and the cart never holds two rows of one
\* user and product.
C26_AddsAccumulate ==
  [][/\ CartRowUnique'
     /\ \A k \in Sessions :
          UpdateExisting(k) \/ InsertItem(k) =>
            (cart'[k].status = 201 =>
               QuantityOf(cart[k].user, cart[k].productId)' =
                 QuantityOf(cart[k].user, cart[k].productId)
                 + cart[k].quantity)]_vars

\* C27: updating, removing or clearing cart items as one user leaves the
\* cart rows of every other user as they were, and a well-formed request
\* addressing another user's item is answered 404, without the item's
\* product, and changes no row.
C27_CartConfined ==
  [][\A k \in Sessions :
       /\ \A user \in Handlers :
            /\ ClearCart(k, user) => OthersRows(user)' = OthersRows(user)
            /\ \A id \in CartItemIds :
                 LET foreign == \E row \in cartItems :
                                  row.id = id /\ row.user_id # user
                 IN /\ RemoveItem(k, user, id) =>
                         /\ OthersRows(user)' = OthersRows(user)
                         /\ foreign =>
                              cart'[k].status = 404 /\ cartItems' = cartItems
                    /\ \A quantity \in CartQuantities :
                         UpdateItem(k, user, id, quantity) =>
                           /\ cartItems' = cartItems
                           /\ foreign /\ quantity >= 1 =>
                                /\ cart'[k].status = 404
                                /\ cart'[k].productId = "none"
       /\ SetQuantity(k) =>
            OthersRows(cart[k].user)' = OthersRows(cart[k].user)]_vars

\* A well-formed update of another user's item was answered 404 and the
\* item is in that user's cart with the quantity it was added with.
C27_Witness ==
  \E k, j \in Sessions :
    /\ cart[k].op = "update" /\ cart[k].quantity >= 1
    /\ cart[k].pc = "idle" /\ cart[k].status = 404
    /\ cart[j].op = "add" /\ cart[j].status = 201
    /\ \E row \in cartItems :
         /\ row.id = cart[k].id /\ row.user_id = cart[j].user
         /\ row.user_id # cart[k].user
         /\ row.quantity = cart[j].quantity

\* A step of a cart route, whatever its input.
CartStep ==
  \E k \in Sessions :
    \/ \E user \in Handlers, productId \in ProductIds,
          quantity \in CartQuantities : AddItem(k, user, productId, quantity)
    \/ AddStep(k)
    \/ \E user \in Handlers, id \in CartItemIds, quantity \in CartQuantities :
         UpdateItem(k, user, id, quantity)
    \/ SetQuantity(k)
    \/ \E user \in Handlers, id \in CartItemIds : RemoveItem(k, user, id)
    \/ \E user \in Handlers : ClearCart(k, user)

\* A step of an order placement, whatever its request.
OrderStep ==
  \E w \in Handlers :
    \/ \E r \in Requests \cup AdminRequests : Start(w, r)
    \/ BeginFails(w)
    \/ PlacementStep(w)

\* C28: no step of a cart route changes a product's stock, an order, an
\* order line or an address, and no step of an order placement changes a
\* cart row.
C28_CartAndOrdersApart ==
  [][/\ CartStep => UNCHANGED <<products, orders, orderItems, addresses>>
     /\ OrderStep => UNCHANGED cartItems]_vars

\* The user has p1 in the cart and has been answered 201 for an order of
\* p1: the stock is down by what was ordered and the cart row is there.
C28_Witness ==
  /\ resp["u1"].status = 201
  /\ OrderedQuantity("p1") > 0
  /\ products["p1"].stock = InitProducts["p1"].stock - OrderedQuantity("p1")
  /\ cart["k1"].op = "add" /\ cart["k1"].status = 201
  /\ QuantityOf("u1", "p1") = cart["k1"].quantity

====
